---- MODULE Spec2Model ----
(***************************************************************************)
(* Hazard-to-time-share converter of the nursing-home inspection           *)
(* dashboards (src/mechanism.py, "new predictability.py" and the           *)
(* array-based variants that follow it).                                   *)
(*                                                                         *)
(* Numbers.  The code computes in IEEE doubles.  The model computes in     *)
(* signed decimal fixed point with 12 fractional digits, which is fine     *)
(* enough to hold every literal of the code exactly (1e-12, 1e-10, 0.999,  *)
(* 50.0).  A number is a tuple <<i, a, b, c>> of limbs in base 10^4 and    *)
(* stands for i + a/10^4 + b/10^8 + c/10^12; i is any integer, the other   *)
(* limbs are in 0..9999, so negative numbers are held the way a floor      *)
(* holds them (-0.5 is <<-1, 5000, 0, 0>>).  Products and quotients round  *)
(* toward minus infinity at the 12th digit where a double rounds to        *)
(* nearest at the 53rd bit.                                                *)
(***************************************************************************)
EXTENDS Integers, Sequences, FiniteSets, TLC

Base == 10^4

Zero == <<0, 0, 0, 0>>
One == <<1, 0, 0, 0>>

FromInt(n) == <<n, 0, 0, 0>>

\* x + y, exact
Add(x, y) ==
    LET t4 == x[4] + y[4]
        t3 == x[3] + y[3] + (t4 \div Base)
        t2 == x[2] + y[2] + (t3 \div Base)
        t1 == x[1] + y[1] + (t2 \div Base)
    IN  <<t1, t2 % Base, t3 % Base, t4 % Base>>

\* x - y, exact
Sub(x, y) ==
    LET t4 == x[4] - y[4]
        t3 == x[3] - y[3] + (t4 \div Base)
        t2 == x[2] - y[2] + (t3 \div Base)
        t1 == x[1] - y[1] + (t2 \div Base)
    IN  <<t1, t2 % Base, t3 % Base, t4 % Base>>

\* x * y, rounded down to the 12th fractional digit
Mul(x, y) ==
    LET c0 == x[4] * y[4]
        c1 == x[3] * y[4] + x[4] * y[3]
        c2 == x[2] * y[4] + x[3] * y[3] + x[4] * y[2]
        c3 == x[1] * y[4] + x[2] * y[3] + x[3] * y[2] + x[4] * y[1]
        c4 == x[1] * y[3] + x[2] * y[2] + x[3] * y[1]
        c5 == x[1] * y[2] + x[2] * y[1]
        c6 == x[1] * y[1]
        t1 == c1 + (c0 \div Base)
        t2 == c2 + (t1 \div Base)
        t3 == c3 + (t2 \div Base)
        t4 == c4 + (t3 \div Base)
        t5 == c5 + (t4 \div Base)
        t6 == c6 + (t5 \div Base)
    IN  <<t6, t5 % Base, t4 % Base, t3 % Base>>

\* x * n for an integer n, exact
MulInt(x, n) ==
    LET t4 == x[4] * n
        t3 == x[3] * n + (t4 \div Base)
        t2 == x[2] * n + (t3 \div Base)
        t1 == x[1] * n + (t2 \div Base)
    IN  <<t1, t2 % Base, t3 % Base, t4 % Base>>

\* x / n for an integer n > 0, rounded down to the 12th fractional digit
DivInt(x, n) ==
    LET q1 == x[1] \div n
        r1 == x[1] % n
        q2 == (r1 * Base + x[2]) \div n
        r2 == (r1 * Base + x[2]) % n
        q3 == (r2 * Base + x[3]) \div n
        r3 == (r2 * Base + x[3]) % n
        q4 == (r3 * Base + x[4]) \div n
    IN  <<q1, q2, q3, q4>>

\* x < y
Less(x, y) ==
    \/ x[1] < y[1]
    \/ /\ x[1] = y[1]
       /\ \/ x[2] < y[2]
          \/ /\ x[2] = y[2]
             /\ \/ x[3] < y[3]
                \/ x[3] = y[3] /\ x[4] < y[4]

Leq(x, y) == ~Less(y, x)

Min(x, y) == IF Less(y, x) THEN y ELSE x
Max(x, y) == IF Less(x, y) THEN y ELSE x

\* np.clip(x, lo, hi) on one element
Clip(x, lo_, hi_) == Min(Max(x, lo_), hi_)

\* np.clip(x, lo, None) on one element
ClipLow(x, lo_) == Max(x, lo_)

(***************************************************************************)
(* Literals of the code.                                                   *)
(***************************************************************************)
Threshold == <<0, 0, 0, 100>>          \* 1e-10
ClipHi == <<0, 9990, 0, 0>>            \* 0.999
Eps == <<0, 0, 0, 1>>                  \* 1e-12
HiInit == <<50, 0, 0, 0>>              \* 50.0
DefaultHorizon == 400
BisectIters == 60
CYCLE_WEEKS == 53
DashHorizon == 300

(***************************************************************************)
(* Inputs.  Direct calls of the three functions draw their arguments from  *)
(* small sets; the dashboard script draws the slider position.             *)
(***************************************************************************)
MaxLen == 3
MaxHorizon == 5
MaxShapeLen == 2

\* hazards a caller passes: probabilities 0, 1/4, 1/2, 0.999 and 1
HazardVals == {Zero, <<0, 2500, 0, 0>>, <<0, 5000, 0, 0>>, ClipHi, One}

\* shape entries a caller passes: -1/2, 0, 1e-12, 1/2
ShapeVals == {<<-1, 5000, 0, 0>>, Zero, Eps, <<0, 5000, 0, 0>>}

\* target lengths a caller passes (the dashboard passes CYCLE_WEEKS)
TargetLens == {1, 2, CYCLE_WEEKS}

\* slider positions tried, out of 0..100
PredInputs == {0, 50, 100}
ExplorerInputs == {p \in 0..100 : p % 4 = 0}
StepCap == 5
DefaultSpeed == 3
MaxSpeed == 6

SeqsUpTo(V, n) == UNION {[1..k -> V] : k \in 1..n}

\* an array given elementwise, held as a sequence (np.asarray)
AsArray(q) == SubSeq(q, 1, Len(q))

HazardInputs == SeqsUpTo(HazardVals, MaxLen)
ShapeInputs == SeqsUpTo(ShapeVals, MaxShapeLen)

VARIABLES
    pc,             \* where the program is
    caller,         \* "direct" for a direct call, "dash" inside the dashboard script
    h,              \* hazard array of the running converter call
    horizon,        \* its horizon argument
    w,              \* loop variable of the survival loop
    S,              \* running survival
    S_vals,         \* list of survival values appended so far
    EL,             \* running expected cycle length
    pi,             \* returned time share, pi[k] = <<numerator, denominator>>
    shape,          \* shape array of scale_hazard_to_target_length, after its clip
    target_len,     \* its target length
    lo,             \* bisection bracket
    hi,
    it,             \* bisection iterations done
    ret,            \* hazard array returned by scale_hazard_to_target_length
    predictability, \* slider position of the dashboard script
    spike,          \* its spike array
    arg,            \* the array the caller passed, as the caller still holds it
    calls,          \* how many times the caller has made this call (1 or 2)
    first_out,      \* what the first of two identical calls returned
    step,           \* st.session_state.step of the three-step dashboard
    back_disabled,  \* the Back button as the browser last drew it
    next_disabled,  \* the Next button as the browser last drew it
    step_slider,    \* its "How random are inspections?" slider
    autoplay,       \* its auto-play checkbox
    speed,          \* its auto-play speed slider, "None" while not drawn
    variant,        \* which of the policy-outcome dashboards is deployed
    df,             \* the table read from figure9_summary_raw.csv
    session,        \* per browser session: st.session_state, widget state, last display
    explorer_slider,   \* the four-step explorer's predictability slider
    selected_step,     \* its step radio
    curves,            \* the effort curves it plots
    avg_effort_pred,   \* its time-weighted averages, as <<sum, total weight>>
    avg_effort_unpred,
    policy_slider,     \* the hazard-linked dashboard's "Inspection Predictability" slider
    avg_e_current,     \* its "Current Avg Effort"
    avg_e_rand,        \* its "Random Avg Effort"
    diff,              \* its "Gain if Fully Random", in percent
    raw_df,            \* the interpolating dashboard's table, its numbers as doubles
    interp_frequency,  \* its frequency slider, in hundredths
    interp_predictability, \* its predictability slider
    outcome            \* what interpolate returned for each of the three metrics

convVars == <<h, horizon, w, S, S_vals, EL, pi>>
scaleVars == <<shape, target_len, lo, hi, it, ret>>
dashVars == <<predictability, spike>>
callVars == <<arg, calls, first_out>>
stepVars == <<step, back_disabled, next_disabled, step_slider, autoplay, speed>>
ctrlVars == <<variant, df, session>>
explorerVars == <<explorer_slider, selected_step, curves, avg_effort_pred, avg_effort_unpred>>
gainVars == <<policy_slider, avg_e_current, avg_e_rand, diff>>
interpVars == <<raw_df, interp_frequency, interp_predictability, outcome>>
uiVars == <<stepVars, ctrlVars, explorerVars, gainVars, interpVars>>
coreVars == <<pc, caller, convVars, scaleVars, dashVars, callVars>>
vars == <<pc, caller, convVars, scaleVars, dashVars, callVars, uiVars>>

\* the hazard read one week ahead
HAt_NextWeek(hz, wk) == IF wk + 1 < Len(hz) THEN hz[wk + 2] ELSE hz[Len(hz)]

\* h[w] if w < len(h) else h[-1]   (weeks count from 0, sequences from 1)
HAt(hz, wk) == IF wk < Len(hz) THEN hz[wk + 1] ELSE hz[Len(hz)]

\* the survival update without the complement
SurvivalNext_NoComplement(s, hw) == Mul(s, hw)

\* S *= (1.0 - hw)
SurvivalNext(s, hw) == Mul(s, Sub(One, hw))

\* the break test with the comparison turned round
BelowThreshold_Reversed(s) == Less(Threshold, s)

\* the break test of both survival loops: S < 1e-10
BelowThreshold(s) == Less(s, Threshold)

RECURSIVE SumRange(_, _, _)
\* q[a] + ... + q[b], split in halves to keep the evaluation shallow
SumRange(q, a, b) ==
    IF a > b THEN Zero
    ELSE IF a = b THEN q[a]
    ELSE LET m == (a + b) \div 2 IN Add(SumRange(q, a, m), SumRange(q, m + 1, b))

\* S_arr.sum()
SumSeq(q) == SumRange(q, 1, Len(q))

\* normalisation by a sum that misses the first entry
Normalise_SkipsFirst(q) == LET tot == SumRange(q, 2, Len(q)) IN [k \in 1..Len(q) |-> <<q[k], tot>>]

\* pi = S_arr / S_arr.sum(): each quotient is kept as <<numerator, denominator>>
Normalise(q) == LET tot == SumSeq(q) IN [k \in 1..Len(q) |-> <<q[k], tot>>]

(***************************************************************************)
(* expected_cycle_length_from_hazard as a function.  The loop state is     *)
(* st = [S, EL, w, brk]; brk records that the loop has hit its break.      *)
(***************************************************************************)
\* the loop body adding S to EL after the update of S
ELBody_AddsAfter(st, hz) ==
    IF st.brk THEN st
    ELSE LET s2 == SurvivalNext(st.S, HAt(hz, st.w))
         IN  [S |-> s2, EL |-> Add(st.EL, s2), w |-> st.w + 1, brk |-> BelowThreshold(s2)]

\* one pass through `for w in range(horizon)`: EL += S; S *= (1.0 - hw); break test
ELBody(st, hz) ==
    IF st.brk THEN st
    ELSE LET s2 == SurvivalNext(st.S, HAt(hz, st.w))
         IN  [S |-> s2, EL |-> Add(st.EL, st.S), w |-> st.w + 1, brk |-> BelowThreshold(s2)]

RECURSIVE ELIter(_, _, _)
\* n passes through the loop, split in halves to keep the evaluation shallow
ELIter(n, st, hz) ==
    IF n = 0 THEN st
    ELSE IF n = 1 THEN ELBody(st, hz)
    ELSE LET first == ELIter(n \div 2, st, hz)
         IN  IF first.brk THEN first ELSE ELIter(n - (n \div 2), first, hz)

expected_cycle_length_from_hazard(hz, hor) ==
    ELIter(hor, [S |-> One, EL |-> Zero, w |-> 0, brk |-> FALSE], hz).EL

RECURSIVE SArr(_, _)
\* the array-based variants: S = ones_like(h); S[w] = S[w-1] * (1 - h[w-1])
SArr(hz, n) ==
    IF n = 1 THEN <<One>>
    ELSE LET prev == SArr(hz, n - 1)
         IN  Append(prev, Mul(prev[n - 1], Sub(One, hz[n - 1])))

\* np.clip(shape, 0.0, None)
ClipShape(raw) == AsArray([k \in 1..Len(raw) |-> ClipLow(raw[k], Zero)])

RECURSIVE MaxRange(_, _, _)
\* max of q[a..b], split in halves to keep the evaluation shallow
MaxRange(q, a, b) ==
    IF a = b THEN q[a]
    ELSE LET m == (a + b) \div 2 IN Max(MaxRange(q, a, m), MaxRange(q, m + 1, b))

\* shape.max()
MaxOf(q) == MaxRange(q, 1, Len(q))

\* np.clip(m * shape, 0.0, 0.999)
ScaledHazard(m, shp) == AsArray([k \in 1..Len(shp) |-> Clip(Mul(m, shp[k]), Zero, ClipHi)])

\* the fallback filled with target_len itself
FlatFallback_Target(shp, L) == AsArray([k \in 1..Len(shp) |-> FromInt(L)])

\* np.full_like(shape, 1.0 / target_len)
FlatFallback(shp, L) == AsArray([k \in 1..Len(shp) |-> DivInt(One, L)])

\* the bracket update with the comparison turned round
Bisect_Reversed(lo_, hi_, mid, el, L) ==
    IF Less(el, FromInt(L)) THEN <<mid, hi_>> ELSE <<lo_, mid>>

\* if EL > target_len: lo = mid  else: hi = mid; the new <<lo, hi>>
Bisect(lo_, hi_, mid, el, L) ==
    IF Less(FromInt(L), el) THEN <<mid, hi_>> ELSE <<lo_, mid>>

InitCore ==
    /\ pc = "idle"
    /\ caller = "direct"
    /\ h = <<>>
    /\ horizon = 0
    /\ w = 0
    /\ S = One
    /\ S_vals = <<>>
    /\ EL = Zero
    /\ pi = <<>>
    /\ shape = <<>>
    /\ target_len = 0
    /\ lo = Zero
    /\ hi = Zero
    /\ it = 0
    /\ ret = <<>>
    /\ predictability = 50
    /\ spike = <<>>
    /\ arg = <<>>
    /\ calls = 0
    /\ first_out = <<>>
    /\ step = 1
    /\ back_disabled = TRUE
    /\ next_disabled = FALSE
    /\ step_slider = 50
    /\ autoplay = FALSE
    /\ speed = "None"

\* the caller makes a call with the array a: its first with this input
FirstCall(a) ==
    /\ arg' = a
    /\ calls' = 1
    /\ first_out' = <<>>

\* a survival loop whose list outlives the call (a list created once, not per call)
EnterLoop_KeepsList(hz, hor) ==
    /\ h' = hz
    /\ horizon' = hor
    /\ w' = 0
    /\ S' = One
    /\ S_vals' = S_vals
    /\ EL' = Zero
    /\ pi' = <<>>

\* entry of a survival loop: S = 1.0, EL = 0.0 / S_vals = []
EnterLoop(hz, hor) ==
    /\ h' = hz
    /\ horizon' = hor
    /\ w' = 0
    /\ S' = One
    /\ S_vals' = <<>>
    /\ EL' = Zero
    /\ pi' = <<>>

(***************************************************************************)
(* time_share_from_hazard(h, horizon)                                      *)
(***************************************************************************)
CallTimeShare ==
    /\ pc = "idle"
    /\ \E hz \in HazardInputs, hor \in 1..MaxHorizon : EnterLoop(hz, hor) /\ FirstCall(hz)
    /\ pc' = "ts_loop"
    /\ caller' = "direct"
    /\ UNCHANGED <<scaleVars, dashVars, uiVars>>

\* one iteration of `for w in range(horizon)`
TimeShareStep ==
    /\ pc = "ts_loop"
    /\ w < horizon
    /\ LET s2 == SurvivalNext(S, HAt(h, w))
       IN  /\ S_vals' = Append(S_vals, S)
           /\ S' = s2
           /\ IF BelowThreshold(s2)
                 THEN /\ pc' = "ts_norm"
                      /\ w' = w
                 ELSE /\ pc' = IF w + 1 < horizon THEN "ts_loop" ELSE "ts_norm"
                      /\ w' = w + 1
    /\ UNCHANGED <<caller, h, horizon, EL, pi, scaleVars, dashVars, callVars, uiVars>>

\* S_arr = np.array(S_vals); pi = S_arr / S_arr.sum(); return pi
TimeShareReturn ==
    /\ pc = "ts_norm"
    /\ pi' = Normalise(S_vals)
    /\ pc' = "ts_done"
    /\ UNCHANGED <<caller, h, horizon, w, S, S_vals, EL, scaleVars, dashVars, callVars, uiVars>>

(***************************************************************************)
(* time_share_from_hazard(h) of the array-based dashboards                 *)
(***************************************************************************)
CallTimeShareArray ==
    /\ pc = "idle"
    /\ \E hz \in HazardInputs :
          /\ h' = hz
          /\ S_vals' = SArr(hz, Len(hz))
          /\ pi' = Normalise(SArr(hz, Len(hz)))
          /\ FirstCall(hz)
    /\ pc' = "arr_done"
    /\ caller' = "direct"
    /\ UNCHANGED <<horizon, w, S, EL, scaleVars, dashVars, uiVars>>

(***************************************************************************)
(* expected_cycle_length_from_hazard(h, horizon)                           *)
(***************************************************************************)
CallExpectedLength ==
    /\ pc = "idle"
    /\ \E hz \in HazardInputs, hor \in 1..MaxHorizon : EnterLoop(hz, hor) /\ FirstCall(hz)
    /\ pc' = "ecl_loop"
    /\ caller' = "direct"
    /\ UNCHANGED <<scaleVars, dashVars, uiVars>>

\* one iteration of `for w in range(horizon)`; the loop exit returns EL
ExpectedLengthStep ==
    /\ pc = "ecl_loop"
    /\ w < horizon
    /\ LET s2 == SurvivalNext(S, HAt(h, w))
       IN  /\ EL' = Add(EL, S)
           /\ S' = s2
           /\ IF BelowThreshold(s2)
                 THEN /\ pc' = "ecl_done"
                      /\ w' = w
                 ELSE /\ pc' = IF w + 1 < horizon THEN "ecl_loop" ELSE "ecl_done"
                      /\ w' = w + 1
    /\ UNCHANGED <<caller, h, horizon, S_vals, pi, scaleVars, dashVars, callVars, uiVars>>

(***************************************************************************)
(* scale_hazard_to_target_length(shape, target_len)                        *)
(***************************************************************************)
\* shape = np.clip(shape, 0, None); the all-zero test; lo, hi = 0.0, 50.0
EnterScale(raw, L) ==
    LET shp == ClipShape(raw)
    IN  /\ shape' = shp
        /\ target_len' = L
        /\ lo' = Zero
        /\ hi' = HiInit
        /\ it' = 0
        /\ IF MaxOf(shp) = Zero
              THEN /\ ret' = FlatFallback(shp, L)
                   /\ pc' = "scale_done"
              ELSE /\ ret' = <<>>
                   /\ pc' = "scale_loop"

CallScale ==
    /\ pc = "idle"
    /\ \E raw \in ShapeInputs, L \in TargetLens : EnterScale(raw, L) /\ FirstCall(raw)
    /\ caller' = "direct"
    /\ UNCHANGED <<convVars, dashVars, uiVars>>

\* one iteration of `for _ in range(60)`
BisectStep ==
    /\ pc = "scale_loop"
    /\ it < BisectIters
    /\ LET mid == DivInt(Add(lo, hi), 2)
           h_mid == ScaledHazard(mid, shape)
           el == expected_cycle_length_from_hazard(h_mid, DefaultHorizon)
       IN  /\ lo' = Bisect(lo, hi, mid, el, target_len)[1]
           /\ hi' = Bisect(lo, hi, mid, el, target_len)[2]
    /\ it' = it + 1
    /\ UNCHANGED <<pc, caller, convVars, shape, target_len, ret, dashVars, callVars, uiVars>>

\* the return with the lower end of the bracket as the multiplier
ScaleReturn_ReturnsLo ==
    /\ pc = "scale_loop"
    /\ it = BisectIters
    /\ ret' = ScaledHazard(lo, shape)
    /\ pc' = "scale_done"
    /\ UNCHANGED <<caller, convVars, shape, target_len, lo, hi, it, dashVars, callVars, uiVars>>

\* return np.clip(hi * shape, 0.0, 0.999)
ScaleReturn ==
    /\ pc = "scale_loop"
    /\ it = BisectIters
    /\ ret' = ScaledHazard(hi, shape)
    /\ pc' = "scale_done"
    /\ UNCHANGED <<caller, convVars, shape, target_len, lo, hi, it, dashVars, callVars, uiVars>>

(***************************************************************************)
(* The dashboard script "new predictability.py", from the slider to pi.    *)
(***************************************************************************)
\* h_sched = np.zeros(horizon); h_sched[CYCLE_WEEKS] = 1.0
h_sched == AsArray([k \in 1..DashHorizon |-> IF k = CYCLE_WEEKS + 1 THEN One ELSE Zero])

\* h_flat = np.full(horizon, 1.0 / CYCLE_WEEKS)
h_flat == AsArray([k \in 1..DashHorizon |-> DivInt(One, CYCLE_WEEKS)])

\* p = predictability / 100.0
SliderShare(pred) == DivInt(FromInt(pred), 100)

\* shape = (1.0 - p) * h_sched + p * h_flat
DashShape(p) ==
    AsArray([k \in 1..DashHorizon |-> Add(Mul(Sub(One, p), h_sched[k]), Mul(p, h_flat[k]))])

\* spike = np.zeros_like(shape); spike[CYCLE_WEEKS] = (1.0 - p) * 1.0
DashSpike(p) ==
    AsArray([k \in 1..DashHorizon |-> IF k = CYCLE_WEEKS + 1 THEN Mul(Sub(One, p), One) ELSE Zero])

\* rest = np.clip(shape - spike, 0.0, None)
DashRest(p) ==
    AsArray([k \in 1..DashHorizon |-> ClipLow(Sub(DashShape(p)[k], DashSpike(p)[k]), Zero)])

\* the argument rest + 1e-12
PlusEps(q) == AsArray([k \in 1..Len(q) |-> Add(q[k], Eps)])

\* h = np.clip(spike + rest_scaled, 0.0, 0.999)
CombinedHazard(spk, rest_scaled) ==
    AsArray([k \in 1..Len(spk) |-> Clip(Add(spk[k], rest_scaled[k]), Zero, ClipHi)])

\* the slider is read and the script runs down to the call
\* scale_hazard_to_target_length(rest + 1e-12, CYCLE_WEEKS)
DashStart ==
    /\ pc = "idle"
    /\ \E pred \in PredInputs :
          /\ predictability' = pred
          /\ spike' = DashSpike(SliderShare(pred))
          /\ EnterScale(PlusEps(DashRest(SliderShare(pred))), CYCLE_WEEKS)
          /\ FirstCall(PlusEps(DashRest(SliderShare(pred))))
    /\ caller' = "dash"
    /\ UNCHANGED <<convVars, uiVars>>

\* h = np.clip(spike + rest_scaled, 0, 0.999); pi = time_share_from_hazard(h, horizon=horizon)
DashConvert ==
    /\ pc = "scale_done"
    /\ caller = "dash"
    /\ EnterLoop(CombinedHazard(spike, ret), DashHorizon)
    /\ pc' = "ts_loop"
    /\ UNCHANGED <<caller, scaleVars, dashVars, callVars, uiVars>>

\* a call, or a run of the script, is over: its locals are gone and the
\* next one starts from scratch
Finish ==
    /\ \/ pc \in {"ts_done", "arr_done", "ecl_done"}
       \/ pc = "scale_done" /\ caller = "direct"
    /\ pc' = "idle"
    /\ caller' = "direct"
    /\ h' = <<>>
    /\ horizon' = 0
    /\ w' = 0
    /\ S' = One
    /\ S_vals' = <<>>
    /\ EL' = Zero
    /\ pi' = <<>>
    /\ shape' = <<>>
    /\ target_len' = 0
    /\ lo' = Zero
    /\ hi' = Zero
    /\ it' = 0
    /\ ret' = <<>>
    /\ predictability' = 50
    /\ spike' = <<>>
    /\ arg' = <<>>
    /\ calls' = 0
    /\ first_out' = <<>>
    /\ UNCHANGED uiVars

\* the caller repeats the call it has just made, with the same arguments
CallAgain ==
    /\ caller = "direct"
    /\ calls = 1
    /\ \/ /\ pc = "ts_done"
          /\ first_out' = pi
          /\ EnterLoop(arg, horizon)
          /\ pc' = "ts_loop"
          /\ UNCHANGED scaleVars
       \/ /\ pc = "scale_done"
          /\ first_out' = ret
          /\ EnterScale(arg, target_len)
          /\ UNCHANGED convVars
    /\ calls' = 2
    /\ UNCHANGED <<caller, arg, dashVars, uiVars>>

NextConv ==
    \/ CallTimeShare
    \/ TimeShareStep
    \/ TimeShareReturn
    \/ CallTimeShareArray
    \/ CallExpectedLength
    \/ ExpectedLengthStep
    \/ Finish

NextScale ==
    \/ CallScale
    \/ BisectStep
    \/ ScaleReturn
    \/ Finish

NextDash ==
    \/ DashStart
    \/ BisectStep
    \/ ScaleReturn
    \/ DashConvert
    \/ TimeShareStep
    \/ TimeShareReturn
    \/ Finish

(***************************************************************************)
(* The three-step dashboard.  Every interaction reruns the script from the *)
(* top: each button is drawn with the `disabled` flag computed from the    *)
(* step at that line, and reports a click only in the run the click        *)
(* started; the browser keeps the flags of the last run until the next.    *)
(***************************************************************************)
\* one run of the script: Back is drawn and handled, then Next
RunStepScript(clickBack, clickNext) ==
    LET afterBack == IF clickBack THEN step - 1 ELSE step
    IN  /\ back_disabled' = (step = 1)
        /\ next_disabled' = (afterBack = 3)
        /\ step' = IF clickNext THEN afterBack + 1 ELSE afterBack

\* the user clicks Back, which the browser shows enabled
ClickBack ==
    /\ ~back_disabled
    /\ step > -StepCap
    /\ RunStepScript(TRUE, FALSE)
    /\ UNCHANGED <<step_slider, autoplay, speed, coreVars, ctrlVars, explorerVars, gainVars, interpVars>>

\* the user clicks Next, which the browser shows enabled
ClickNext ==
    /\ ~next_disabled
    /\ step < StepCap
    /\ RunStepScript(FALSE, TRUE)
    /\ UNCHANGED <<step_slider, autoplay, speed, coreVars, ctrlVars, explorerVars, gainVars, interpVars>>

\* the user moves the sidebar slider
MoveStepSlider ==
    /\ \E v \in PredInputs : v # step_slider /\ step_slider' = v
    /\ RunStepScript(FALSE, FALSE)
    /\ UNCHANGED <<autoplay, speed, coreVars, ctrlVars, explorerVars, gainVars, interpVars>>

\* the user ticks or unticks auto-play; the speed slider exists only while ticked
ToggleAutoplay ==
    /\ autoplay' = ~autoplay
    /\ speed' = IF autoplay' THEN DefaultSpeed ELSE "None"
    /\ RunStepScript(FALSE, FALSE)
    /\ UNCHANGED <<step_slider, coreVars, ctrlVars, explorerVars, gainVars, interpVars>>

\* the user moves the speed slider
MoveSpeed ==
    /\ autoplay
    /\ \E v \in 1..MaxSpeed : v # speed /\ speed' = v
    /\ RunStepScript(FALSE, FALSE)
    /\ UNCHANGED <<step_slider, autoplay, coreVars, ctrlVars, explorerVars, gainVars, interpVars>>

(***************************************************************************)
(* The policy-outcome dashboards: three predictability regimes, three      *)
(* inspection frequencies each, and a table with one row per pair.         *)
(* Frequencies are held in units of 1e-5 inspections per facility-year.    *)
(***************************************************************************)
Positions == <<"-25%", "Current", "+25%">>
PosIndex(p) == CHOOSE i \in 1..3 : Positions[i] = p

\* pred_options / REGIME_OPTIONS.keys()
pred_options == <<"Unpredictable", "Current regime", "Perfectly predictable">>
PredIndex(c) == CHOOSE i \in 1..3 : pred_options[i] = c

\* pred_map / REGIME_OPTIONS
pred_map(c) ==
    IF c = "Unpredictable" THEN 100 ELSE IF c = "Current regime" THEN 50 ELSE 0

RECURSIVE sorted(_)
\* sorted(opts): ascending, by insertion
sorted(q) ==
    IF q = <<>> THEN <<>>
    ELSE LET rest == sorted(Tail(q))
             smaller == SelectSeq(rest, LAMBDA x : x < Head(q))
             others == SelectSeq(rest, LAMBDA x : ~(x < Head(q)))
         IN  smaller \o <<Head(q)>> \o others

\* df.loc[df["predictability_numeric"] == p, "frequency"], sorted:
\* low, mid, high
get_freq_options(t, p) ==
    LET rows == SelectSeq(t, LAMBDA r : r.predictability_numeric = p)
    IN  sorted([i \in 1..Len(rows) |-> rows[i].frequency])

\* f"{x:.2f}": the number of hundredths nearest to x; 0.735 and 1.225 are
\* halfway in decimal and go the way their binary values lie
Fmt2(f) ==
    IF f = 73500 THEN 73
    ELSE IF f = 122500 THEN 123
    ELSE (f + 500) \div 1000

\* the radio strings f"-25% ({low:.2f})", f"Current ({mid:.2f})", f"+25% ({high:.2f})"
freq_options(opts) == [i \in 1..3 |-> <<Positions[i], Fmt2(opts[i])>>]

\* df["frequency"].round(4) read back as a number in the same units
freq_round_TwoPlaces(f) == ((f + 500) \div 1000) * 1000

freq_round(f) == ((f + 5) \div 10) * 10

\* round(float(frequency), 4)
Round4(f) == ((f + 5) \div 10) * 10

\* df["scenario_key"] = predictability_numeric + "_" + freq_round
scenario_key(r) == <<r.predictability_numeric, freq_round(r.frequency)>>

\* selected_key = f"{int(predictability)}_{round(float(frequency), 4)}"
selected_key(p, f) == <<p, Round4(f)>>

\* scenario_label(predictability, frequency)
scenario_label(p, f) ==
    LET base == IF p = 0 THEN 98000 ELSE 99000
        name == IF p = 50 THEN "Current Regime"
                ELSE IF p = 100 THEN "Unpredictable"
                ELSE "Perfectly Predictable"
    IN  IF p \notin {0, 50, 100} THEN "None"
        ELSE IF f = base THEN <<name, "">>
        ELSE IF f > base THEN <<name, "Increased Frequency">>
        ELSE <<name, "Decreased Frequency">>

\* no row: what .iloc[0] raises on
IndexError == 0

\* df[(predictability_numeric == p) & (frequency == f)].iloc[0]: the index of
\* the first matching row, or the IndexError of an empty selection
Lookup(t, p, f) ==
    LET hits == {i \in 1..Len(t) : t[i].predictability_numeric = p /\ t[i].frequency = f}
    IN  IF hits = {} THEN IndexError
        ELSE CHOOSE i \in hits : \A j \in hits : i <= j

\* what a run puts on the page for regime p and frequency f
Show(t, p, f) ==
    [predictability |-> p,
     frequency |-> f,
     scenario |-> scenario_label(p, f),
     row |-> Lookup(t, p, f),
     selected_key |-> selected_key(p, f),
     highlighted |-> {i \in 1..Len(t) : scenario_key(t[i]) = selected_key(p, f)}]

\* tables with exactly three frequencies for each of the regimes 0, 50, 100
Regime0 == <<73500, 98000, 122500>>
Regime50 == <<74250, 99000, 123750>>
Regime100Choices ==
    {<<74250, 99000, 123750>>, <<74254, 99000, 123746>>,
     <<79200, 99000, 118800>>, <<74250, 99004, 123750>>}

\* nine rows, regime by regime, frequencies ascending or descending
MakeTable(r100, descending) ==
    [k \in 1..9 |->
        LET g == ((k - 1) \div 3) + 1
            j == IF descending THEN 3 - ((k - 1) % 3) ELSE ((k - 1) % 3) + 1
        IN  [predictability_numeric |-> <<0, 50, 100>>[g],
             frequency |-> <<Regime0, Regime50, r100>>[g][j],
             lives_saved_annually |-> 10 * k]]

Tables == {MakeTable(r, d) : r \in Regime100Choices, d \in BOOLEAN}
Variants == {"keyed", "indexed", "cards", "sliders"}
Sessions == {1, 2}

NoWidget == [id |-> <<<<0, 0, 0>>, 0>>, val |-> <<"None", 0>>]

\* a session before its first run: the session defaults
NewSession ==
    [pred_choice |-> "Current regime",
     freq_position |-> "Current",
     freq_choice |-> <<"None", 0>>,
     pred_widget |-> NoWidget,
     freq_widget |-> NoWidget,
     select_drawn |-> {},
     shown |-> Show(<<>>, 50, 0)]

\* a widget that keeps the browser's value whatever it is rebuilt with
WidgetValue_Stale(wdg, id, default) == IF wdg.id = NoWidget.id THEN default ELSE wdg.val

\* a widget without a key is the same widget as in the last run when it is
\* built with the same parameters; then it returns the value the browser
\* holds for it, else its default
WidgetValue(wdg, id, default) == IF wdg.id = id THEN wdg.val ELSE default

\* the stored choice is replaced by the option at the default position
Revalidate_ToCurrent(choice, fo, pos) ==
    IF \E i \in 1..3 : fo[i] = choice THEN choice ELSE fo[PosIndex("Current")]

\* if st.session_state["freq_choice"] not in freq_options:
\*     st.session_state["freq_choice"] = pos_to_string[st.session_state["freq_position"]]
Revalidate(choice, fo, pos) ==
    IF \E i \in 1..3 : fo[i] = choice THEN choice ELSE fo[PosIndex(pos)]

\* the frequency read back from the two decimals of the label
NumericFrequency_FromLabel(opts, choice) == choice[2] * 1000

\* frequency = float(low) / float(mid) / float(high) by the label's prefix
NumericFrequency(opts, choice) == opts[PosIndex(choice[1])]

\* the dashboard with key-based radios (session keys pred_choice, freq_choice)
RunKeyed(t, ss) ==
    LET p == pred_map(ss.pred_choice)
        opts == get_freq_options(t, p)
        fo == freq_options(opts)
        choice == Revalidate(ss.freq_choice, fo, ss.freq_position)
    IN  [ss EXCEPT !.freq_choice = choice,
                   !.freq_position = choice[1],
                   !.shown = Show(t, p, NumericFrequency(opts, choice))]

\* the dashboards whose radios are built with index= from the session state
RunIndexed(t, ss) ==
    LET pred == WidgetValue(ss.pred_widget, <<<<0, 0, 0>>, PredIndex(ss.pred_choice)>>,
                            <<ss.pred_choice, 0>>)
        p == pred_map(pred[1])
        opts == get_freq_options(t, p)
        fo == freq_options(opts)
        default_index == PosIndex(ss.freq_position)
        fid == <<<<fo[1][2], fo[2][2], fo[3][2]>>, default_index>>
        choice == WidgetValue(ss.freq_widget, fid, fo[default_index])
    IN  [ss EXCEPT !.pred_choice = pred[1],
                   !.pred_widget = [id |-> <<<<0, 0, 0>>, PredIndex(ss.pred_choice)>>, val |-> pred],
                   !.freq_widget = [id |-> fid, val |-> choice],
                   !.freq_position = choice[1],
                   !.shown = Show(t, p, NumericFrequency(opts, choice))]

\* the card dashboard: a Select button under every card that is not the
\* selected one when it is drawn; click is the card whose button was
\* clicked, 0 for none
RunCards(t, ss, click) ==
    LET takes == click # 0 /\ pred_options[click] # ss.pred_choice
        regime_label == IF takes THEN pred_options[click] ELSE ss.pred_choice
        stored == IF takes THEN "Current" ELSE ss.freq_position
        fid == <<<<0, 0, 0>>, PosIndex(stored)>>
        choice == WidgetValue(ss.freq_widget, fid, <<stored, 0>>)
        p == pred_map(regime_label)
        opts == get_freq_options(t, p)
    IN  [ss EXCEPT !.pred_choice = regime_label,
                   !.freq_position = choice[1],
                   !.freq_widget = [id |-> fid, val |-> choice],
                   !.select_drawn =
                       {i \in 1..3 : pred_options[i] #
                           (IF takes /\ i > click THEN regime_label ELSE ss.pred_choice)},
                   !.shown = Show(t, p, NumericFrequency(opts, choice))]

\* the select_slider dashboard: no session keys, the regime slider with
\* fixed options, the frequency slider with the regime's frequencies
RunSliders(t, ss) ==
    LET ui == WidgetValue(ss.pred_widget, <<<<0, 50, 100>>, 50>>, <<"", 50>>)
        p == 100 - ui[2]
        opts == get_freq_options(t, p)
        default_freq == IF p = 0 THEN 98000 ELSE 99000
        value == IF \E i \in 1..Len(opts) : opts[i] = default_freq
                 THEN default_freq ELSE opts[2]
        fid == <<opts, value>>
        frequency == WidgetValue(ss.freq_widget, fid, <<"", value>>)
    IN  [ss EXCEPT !.pred_choice = pred_options[PredIndex(
                                       IF p = 100 THEN "Unpredictable"
                                       ELSE IF p = 50 THEN "Current regime"
                                       ELSE "Perfectly predictable")],
                   !.pred_widget = [id |-> <<<<0, 50, 100>>, 50>>, val |-> ui],
                   !.freq_widget = [id |-> fid, val |-> frequency],
                   !.freq_position =
                       IF \E i \in 1..3 : opts[i] = frequency[2]
                       THEN Positions[CHOOSE i \in 1..3 : opts[i] = frequency[2]]
                       ELSE "None",
                   !.shown = Show(t, p, frequency[2])]

\* one run of the deployed script
RunScript(v, t, ss, click) ==
    IF v = "keyed" THEN RunKeyed(t, ss)
    ELSE IF v = "indexed" THEN RunIndexed(t, ss)
    ELSE IF v = "cards" THEN RunCards(t, ss, click)
    ELSE RunSliders(t, ss)

(***************************************************************************)
(* The four-step mechanism explorer.                                       *)
(***************************************************************************)
ExplorerWeeks == 61
Baseline == <<0, 500, 0, 0>>
MaxAmp == <<0, 2500, 0, 0>>
RevisitWindow == 20
PeakWeek == 52
Half == <<0, 5000, 0, 0>>

RECURSIVE ExpSeries(_, _, _)
\* 1 - y/1 (1 - y/2 (1 - ... (1 - y/n))), from the innermost term outwards
ExpSeries(y, n, acc) ==
    IF n = 0 THEN acc
    ELSE LET next == Sub(One, DivInt(Mul(y, acc), n))
         IN  IF Less(next, Zero) THEN Zero ELSE ExpSeries(y, n - 1, next)

RECURSIVE SquareTimes(_, _)
\* x ^ (2 ^ k)
SquareTimes(x, k) ==
    IF k = 0 THEN x
    ELSE LET sq == Mul(x, x)
         IN  IF Less(sq, Zero) THEN Zero ELSE SquareTimes(sq, k - 1)

\* np.exp(-x) for x >= 0, to about eleven decimals: exp(-x/32) by fourteen
\* terms of its series, then squared five times
ExpNeg(x) == SquareTimes(ExpSeries(DivInt(x, 32), 14, One), 5)

\* strength = 1 - (predictability / 100)
Strength(p) == Sub(One, DivInt(FromInt(p), 100))

\* calculate_effort(weeks, predictability)
calculate_effort(p) ==
    AsArray([k \in 1..ExplorerWeeks |->
        LET amp == Mul(MaxAmp, Strength(p))
            d == DivInt(FromInt((k - 1) - 30), 30)
            shp == Mul(d, d)
        IN  Add(Baseline, Mul(amp, Sub(MulInt(shp, 2), One)))])

\* height = np.exp(-((w - peak_week) ** 2) / (2 * spread ** 2)) with
\* spread = 5 + (1 - concentration) * 15 = (2000 - 15 p) / 100
Height(p, wk) ==
    LET r == DivInt(FromInt((wk - PeakWeek) * 100), 2000 - 15 * p)
    IN  ExpNeg(DivInt(Mul(r, r), 2))

\* calculate_distribution(weeks, predictability) before its division by the sum
calculate_distribution(p) ==
    AsArray([k \in 1..ExplorerWeeks |->
        LET concentration == DivInt(FromInt(p), 100)
        IN  IF k - 1 < RevisitWindow THEN Zero
            ELSE Add(Mul(Height(p, k - 1), concentration),
                     Mul(Sub(One, concentration), Half))])

\* np.sum(effort * distribution), distribution = weights / weights.sum()
WeightedAverage(effort, weights) ==
    <<SumSeq(AsArray([k \in 1..ExplorerWeeks |-> Mul(effort[k], weights[k])])),
      SumSeq(weights)>>

effort_predictable == calculate_effort(100)
effort_unpredictable == calculate_effort(0)

\* one run of the explorer script with the slider at p
RunExplorer(p) ==
    LET distribution == calculate_distribution(p)
    IN  /\ curves' = [predictable |-> effort_predictable,
                      unpredictable |-> effort_unpredictable,
                      current |-> calculate_effort(p)]
        /\ avg_effort_pred' = WeightedAverage(effort_predictable, distribution)
        /\ avg_effort_unpred' = WeightedAverage(effort_unpredictable, distribution)

InitExplorer ==
    /\ explorer_slider = 50
    /\ selected_step = 0
    /\ curves = [predictable |-> effort_predictable,
                 unpredictable |-> effort_unpredictable,
                 current |-> calculate_effort(50)]
    /\ LET distribution == calculate_distribution(50)
       IN  /\ avg_effort_pred = WeightedAverage(effort_predictable, distribution)
           /\ avg_effort_unpred = WeightedAverage(effort_unpredictable, distribution)

ExplorerMoveSlider ==
    /\ \E p \in ExplorerInputs :
          /\ p # explorer_slider
          /\ explorer_slider' = p
          /\ RunExplorer(p)
    /\ UNCHANGED <<selected_step, coreVars, stepVars, ctrlVars, gainVars, interpVars>>

ExplorerSelectStep ==
    /\ \E k \in 0..3 : k # selected_step /\ selected_step' = k
    /\ RunExplorer(explorer_slider)
    /\ UNCHANGED <<explorer_slider, coreVars, stepVars, ctrlVars, gainVars, interpVars>>

NextExplorer ==
    \/ ExplorerMoveSlider
    \/ ExplorerSelectStep

(***************************************************************************)
(* The hazard-linked dashboard ("Gnew predictability.py").                 *)
(***************************************************************************)
GainWeeks == 60

RECURSIVE Newton(_, _, _)
\* k steps of r <- r * (2 - y * r), which converge to 1 / y
Newton(y, r, k) ==
    IF k = 0 THEN r
    ELSE LET next == Mul(r, Sub(FromInt(2), Mul(y, r)))
         IN  IF Less(next, Zero) THEN Zero ELSE Newton(y, next, k - 1)

RECURSIVE Recip(_)
\* 1 / y for y > 0, to about eleven decimals: y is brought into [1/2, 2] by
\* doubling or halving, then eight Newton steps from 1/2
Recip(y) ==
    IF Less(FromInt(2), y) THEN DivInt(Recip(DivInt(y, 2)), 2)
    ELSE IF Less(y, Half) THEN MulInt(Recip(MulInt(y, 2)), 2)
    ELSE Newton(y, Half, 8)

\* x / y for y > 0
Div(x, y) == Mul(x, Recip(y))

\* hazard_random = np.full_like(weeks, 1/54, dtype=float)
hazard_random == AsArray([k \in 1..GainWeeks |-> DivInt(One, 54)])

\* hazard_predictable = 0.15 / (1 + np.exp(-0.3 * (weeks - 45))); for a week
\* before 45 the exponential exceeds 1 and the quotient is taken as
\* 0.15 * e / (1 + e) with e = exp(-0.3 * (45 - week))
hazard_predictable ==
    AsArray([k \in 1..GainWeeks |->
        IF k >= 45
        THEN Div(<<0, 1500, 0, 0>>, Add(One, ExpNeg(Mul(<<0, 3000, 0, 0>>, FromInt(k - 45)))))
        ELSE LET e == ExpNeg(Mul(<<0, 3000, 0, 0>>, FromInt(45 - k)))
             IN  Div(Mul(<<0, 1500, 0, 0>>, e), Add(One, e))])

\* norm.pdf(weeks, loc=50, scale=8) = exp(-((w - 50) / 8)^2 / 2) / (8 sqrt(2 pi))
norm_pdf ==
    AsArray([k \in 1..GainWeeks |->
        LET z == DivInt(FromInt(k - 50), 8)
        IN  Mul(ExpNeg(DivInt(Mul(z, z), 2)), <<0, 498, 6778, 5050>>)])

\* time_spent = time_spent / time_spent.sum()
time_spent ==
    LET total == Recip(SumSeq(norm_pdf))
    IN  AsArray([k \in 1..GainWeeks |-> Mul(norm_pdf[k], total)])

\* h_w = (p_factor * hazard_predictable) + ((1 - p_factor) * hazard_random)
h_w(predict_level) ==
    LET p_factor == DivInt(FromInt(predict_level), 100)
    IN  AsArray([k \in 1..GainWeeks |->
            Add(Mul(hazard_predictable[k], p_factor),
                Mul(hazard_random[k], Sub(One, p_factor)))])

\* effort = 0.05 + (h_w * 0.75)
effort_of(hw) ==
    AsArray([k \in 1..GainWeeks |-> Add(<<0, 500, 0, 0>>, Mul(hw[k], <<0, 7500, 0, 0>>))])

\* generate_model_data(predict_level): h_w, effort, time_spent
generate_model_data(predict_level) ==
    <<h_w(predict_level), effort_of(h_w(predict_level)), time_spent>>

\* np.sum(e * t)
SumProduct(e, t) == SumSeq(AsArray([k \in 1..GainWeeks |-> Mul(e[k], t[k])]))

\* the average effort at slider position p: np.sum(e * t) over the effort and
\* the time distribution that generate_model_data(p) returns
AverageEffort(p) == SumProduct(generate_model_data(p)[2], generate_model_data(p)[3])

\* diff = ((avg_e_rand - avg_e_current) / avg_e_current) * 100
GainPercent(cur, rand) == MulInt(Div(Sub(rand, cur), cur), 100)

\* one run of the script with the slider at p
RunGain(p, cur, rand, d) ==
    /\ cur = AverageEffort(p)
    /\ rand = AverageEffort(0)
    /\ d = GainPercent(cur, rand)

InitGain ==
    /\ policy_slider = 50
    /\ RunGain(50, avg_e_current, avg_e_rand, diff)

MovePolicySlider ==
    /\ \E p \in 0..100 :
          /\ p # policy_slider
          /\ policy_slider' = p
          /\ RunGain(p, avg_e_current', avg_e_rand', diff')
    /\ UNCHANGED <<coreVars, stepVars, ctrlVars, explorerVars, interpVars>>

NextGain == MovePolicySlider

(***************************************************************************)
(* IEEE doubles, bit for bit.  The interpolating dashboard is checked for  *)
(* exact equality of doubles, which the decimal numbers above cannot       *)
(* decide.  A natural number is a sequence of limbs in base 2^13, lowest   *)
(* limb first, without zero limbs at the top; a double is [s, m, e] and    *)
(* stands for (-1)^s * m * 2^e with m odd and below 2^53, or m = <<>> for  *)
(* zero.  Every operation computes the exact result and rounds it to 53    *)
(* bits, to nearest, ties to even.  Exponents are not bounded: overflow    *)
(* and subnormals are outside the values the dashboard handles.            *)
(***************************************************************************)
Limb == 2^13

\* index of the highest limb that is not zero, 0 if there is none
TopLimb(x) ==
    IF \A k \in 1..Len(x) : x[k] = 0 THEN 0
    ELSE CHOOSE k \in 1..Len(x) : x[k] # 0 /\ \A j \in (k + 1)..Len(x) : x[j] = 0

\* drop the zero limbs at the top
NNorm(x) == SubSeq(x, 1, TopLimb(x))

RECURSIVE Carry(_, _, _, _)
\* the limbs of sum c[k] * Limb^(k-1) for integers c[k], the sum >= 0
Carry(c, k, carry, acc) ==
    IF k > Len(c)
    THEN IF carry = 0 THEN acc ELSE Append(acc, carry)
    ELSE Carry(c, k + 1, (c[k] + carry) \div Limb, Append(acc, (c[k] + carry) % Limb))

NLimb(x, k) == IF k >= 1 /\ k <= Len(x) THEN x[k] ELSE 0

NLen(x, y) == IF Len(x) < Len(y) THEN Len(y) ELSE Len(x)

NAdd(x, y) == NNorm(Carry([k \in 1..NLen(x, y) |-> NLimb(x, k) + NLimb(y, k)], 1, 0, <<>>))

\* x - y for x >= y
NSub(x, y) == NNorm(Carry([k \in 1..NLen(x, y) |-> NLimb(x, k) - NLimb(y, k)], 1, 0, <<>>))

NLess(x, y) ==
    \/ Len(x) < Len(y)
    \/ /\ Len(x) = Len(y)
       /\ \E k \in 1..Len(x) :
             /\ x[k] < y[k]
             /\ \A j \in (k + 1)..Len(x) : x[j] = y[j]

\* limb k of the product before the carries: the sum of x[i] * y[k + 1 - i]
Convolve(x, y, k) ==
    NLimb(x, 1) * NLimb(y, k) + NLimb(x, 2) * NLimb(y, k - 1) + NLimb(x, 3) * NLimb(y, k - 2)
    + NLimb(x, 4) * NLimb(y, k - 3) + NLimb(x, 5) * NLimb(y, k - 4)

\* x * y, at most five limbs each
NMul(x, y) ==
    IF x = <<>> \/ y = <<>> THEN <<>>
    ELSE NNorm(Carry([k \in 1..(Len(x) + Len(y) - 1) |-> Convolve(x, y, k)], 1, 0, <<>>))

\* x * 2^s
NShl(x, s) ==
    IF x = <<>> THEN <<>>
    ELSE [k \in 1..(s \div 13) |-> 0] \o
         NNorm(Carry([k \in 1..Len(x) |-> x[k] * 2^(s % 13)], 1, 0, <<>>))

\* floor(x / 2^s)
NShr(x, s) ==
    NNorm([k \in 1..(Len(x) - (s \div 13)) |->
              (NLimb(x, (s \div 13) + k) \div 2^(s % 13))
              + (NLimb(x, (s \div 13) + k + 1) % 2^(s % 13)) * 2^(13 - (s % 13))])

\* bit i of x, bit 0 the lowest
NBit(x, i) == (NLimb(x, (i \div 13) + 1) \div 2^(i % 13)) % 2

\* number of bits of x
NBits(x) ==
    IF x = <<>> THEN 0
    ELSE 13 * (Len(x) - 1) + CHOOSE b \in 1..13 : 2^(b - 1) <= x[Len(x)] /\ x[Len(x)] < 2^b

\* number of zero bits at the bottom of x, x # 0
LowZeros(x) ==
    CHOOSE i \in 0..(13 * Len(x) - 1) :
        /\ NBit(x, i) = 1
        /\ \A k \in 1..(i \div 13) : x[k] = 0
        /\ x[(i \div 13) + 1] % 2^(i % 13) = 0

\* the natural number n as limbs, 0 <= n < 2^31
NFromInt(n) == NNorm(<<n % Limb, (n \div Limb) % Limb, n \div (Limb * Limb)>>)

FZero == [s |-> 0, m |-> <<>>, e |-> 0]

\* (-1)^s * m * 2^e with the low zero bits of m moved into the exponent
Canonical(s, m, e) ==
    IF m = <<>> THEN FZero
    ELSE [s |-> s, m |-> NShr(m, LowZeros(m)), e |-> e + LowZeros(m)]

\* whether m, cut after its bit k, rounds up: the first bit cut off is set and
\* either a lower one is too or the last bit kept is odd
RoundsUp(m, k) ==
    /\ NBit(m, k - 1) = 1
    /\ \/ NBit(m, k) = 1
       \/ \E i \in 0..(k - 2) : NBit(m, i) = 1

\* m without its k lowest bits, rounded to nearest, ties to even
RoundAt(m, k) == IF RoundsUp(m, k) THEN NAdd(NShr(m, k), <<1>>) ELSE NShr(m, k)

\* (-1)^s * m * 2^e rounded to 53 bits
FRound(s, m, e) ==
    IF NBits(m) <= 53 THEN Canonical(s, m, e)
    ELSE Canonical(s, RoundAt(m, NBits(m) - 53), e + (NBits(m) - 53))

\* int to float
FFromInt(n) == IF n < 0 THEN FRound(1, NFromInt(-n), 0) ELSE FRound(0, NFromInt(n), 0)

FNeg(a) == IF a.m = <<>> THEN a ELSE [a EXCEPT !.s = 1 - a.s]

FAbs(a) == [a EXCEPT !.s = 0]

\* (-1)^sa * x * 2^e + (-1)^sb * y * 2^e
AddAligned(sa, x, sb, y, e) ==
    IF sa = sb THEN FRound(sa, NAdd(x, y), e)
    ELSE IF x = y THEN FZero
    ELSE IF NLess(y, x) THEN FRound(sa, NSub(x, y), e)
    ELSE FRound(sb, NSub(y, x), e)

\* a + b
FAdd(a, b) ==
    IF a.m = <<>> THEN b
    ELSE IF b.m = <<>> THEN a
    ELSE IF a.e < b.e THEN AddAligned(a.s, a.m, b.s, NShl(b.m, b.e - a.e), a.e)
    ELSE AddAligned(a.s, NShl(a.m, a.e - b.e), b.s, b.m, b.e)

\* a - b
FSub(a, b) == FAdd(a, FNeg(b))

\* a * b
FMul(a, b) == FRound((a.s + b.s) % 2, NMul(a.m, b.m), a.e + b.e)

\* a < b
FLess(a, b) == FSub(a, b).s = 1

RECURSIVE DivSteps(_, _, _, _)
\* k more quotient bits of r / y for r < y, the bits lowest first, and under
\* them one bit that tells whether a remainder is left
DivSteps(r, y, k, bits) ==
    IF k = 0 \/ Len(bits) < 0 THEN <<IF r = <<>> THEN 0 ELSE 1>> \o bits
    ELSE IF NLess(NShl(r, 1), y) THEN DivSteps(NShl(r, 1), y, k - 1, <<0>> \o bits)
    ELSE DivSteps(NSub(NShl(r, 1), y), y, k - 1, <<1>> \o bits)

\* the limbs of a sequence of bits, lowest first
NFromBits(bits) ==
    NNorm([k \in 1..((Len(bits) + 12) \div 13) |->
              LET b(i) == IF 13 * (k - 1) + i <= Len(bits) THEN bits[13 * (k - 1) + i] ELSE 0
              IN  b(1) + 2 * b(2) + 4 * b(3) + 8 * b(4) + 16 * b(5) + 32 * b(6) + 64 * b(7)
                  + 128 * b(8) + 256 * b(9) + 512 * b(10) + 1024 * b(11) + 2048 * b(12)
                  + 4096 * b(13)])

\* (-1)^s * (x / y) * 2^(e + 57) for x and y of the same number of bits: the
\* bit before the binary point, 56 bits after it and the remainder bit
DivAligned(s, x, y, e) ==
    IF NLess(x, y) THEN FRound(s, NFromBits(DivSteps(x, y, 56, <<0>>)), e)
    ELSE FRound(s, NFromBits(DivSteps(NSub(x, y), y, 56, <<1>>)), e)

\* a / b for b # 0
FDiv(a, b) ==
    IF a.m = <<>> THEN FZero
    ELSE IF NBits(a.m) < NBits(b.m)
    THEN DivAligned((a.s + b.s) % 2, NShl(a.m, NBits(b.m) - NBits(a.m)), b.m,
                    (a.e - b.e) + (NBits(a.m) - NBits(b.m)) - 57)
    ELSE DivAligned((a.s + b.s) % 2, a.m, NShl(b.m, NBits(a.m) - NBits(b.m)),
                    (a.e - b.e) + (NBits(a.m) - NBits(b.m)) - 57)

\* the double nearest to n / 10^k, as a decimal numeral with k digits after
\* the point is read
Dec(n, k) == FDiv(FFromInt(n), FFromInt(10^k))

\* the doubles 0.01, 0.02, ..., 1.50
Hundredths == AsArray([n \in 1..150 |-> Dec(n, 2)])

\* the doubles 1 / 50, 2 / 50, ..., 50 / 50
Fiftieths == AsArray([q \in 1..50 |-> FDiv(FFromInt(q), FFromInt(50))])

(***************************************************************************)
(* The interpolating dashboard ("Nursing Home Inspection Policy            *)
(* Outcomes.py"): two sliders, three interpolated metrics.                 *)
(***************************************************************************)
InterpCols == {"lives_saved_annually", "lives_saved_per_1000", "info_percent"}

\* one row of the table as pd.read_csv holds it; the numerals are <<n, k>>
\* for n / 10^k
CsvRow(p, f, a, b, c) ==
    [predictability_numeric |-> p,
     frequency |-> Dec(f[1], f[2]),
     lives_saved_annually |-> Dec(a[1], a[2]),
     lives_saved_per_1000 |-> Dec(b[1], b[2]),
     info_percent |-> Dec(c[1], c[2])]

\* a table whose values lie within a factor of two of each other from one
\* regime to the next, frequencies ascending
NearTable ==
    <<CsvRow(0, <<735, 3>>, <<905, 1>>, <<79, 1>>, <<412, 1>>),
      CsvRow(0, <<98, 2>>, <<1203, 1>>, <<81, 1>>, <<455, 1>>),
      CsvRow(0, <<1225, 3>>, <<1501, 1>>, <<83, 1>>, <<498, 1>>),
      CsvRow(50, <<7425, 4>>, <<1002, 1>>, <<86, 1>>, <<521, 1>>),
      CsvRow(50, <<99, 2>>, <<1314, 1>>, <<87, 1>>, <<563, 1>>),
      CsvRow(50, <<12375, 4>>, <<1608, 1>>, <<89, 1>>, <<604, 1>>),
      CsvRow(100, <<7425, 4>>, <<1107, 1>>, <<92, 1>>, <<634, 1>>),
      CsvRow(100, <<99, 2>>, <<1409, 1>>, <<94, 1>>, <<677, 1>>),
      CsvRow(100, <<12375, 4>>, <<1713, 1>>, <<95, 1>>, <<719, 1>>)>>

\* a table whose values more than double from one regime to the next,
\* frequencies descending
WideTable ==
    <<CsvRow(0, <<1225, 3>>, <<301, 1>>, <<3, 1>>, <<124, 1>>),
      CsvRow(0, <<98, 2>>, <<203, 1>>, <<2, 1>>, <<101, 1>>),
      CsvRow(0, <<735, 3>>, <<105, 1>>, <<1, 1>>, <<87, 1>>),
      CsvRow(50, <<12375, 4>>, <<908, 1>>, <<11, 1>>, <<412, 1>>),
      CsvRow(50, <<99, 2>>, <<714, 1>>, <<9, 1>>, <<355, 1>>),
      CsvRow(50, <<7425, 4>>, <<502, 1>>, <<7, 1>>, <<298, 1>>),
      CsvRow(100, <<12375, 4>>, <<2113, 1>>, <<29, 1>>, <<919, 1>>),
      CsvRow(100, <<99, 2>>, <<1809, 1>>, <<24, 1>>, <<877, 1>>),
      CsvRow(100, <<7425, 4>>, <<1507, 1>>, <<21, 1>>, <<834, 1>>)>>

InterpTables == {NearTable, WideTable}

\* slider positions, in hundredths, of st.slider("", 0.5, 1.5, 0.99, 0.01)
FrequencyInputs == {50, 74, 97, 99, 150}

\* slider positions of st.slider("", 0, 100, 50)
PredictabilityInputs == {0, 1, 10, 25, 49, 50, 51, 75, 90, 99, 100}

\* df[df["predictability_numeric"] == p]
Regime(t, p) == SelectSeq(t, LAMBDA r : r.predictability_numeric = p)

\* .sort_values("frequency"): the row at position i has i - 1 rows before it
sort_values(q) ==
    AsArray([i \in 1..Len(q) |->
        q[CHOOSE k \in 1..Len(q) :
            Cardinality({j \in 1..Len(q) :
                \/ FLess(q[j].frequency, q[k].frequency)
                \/ q[j].frequency = q[k].frequency /\ j < k}) = i - 1]])

\* |subset["frequency"][k] - baseline_freq|
Distance(subset, baseline_freq, k) == FAbs(FSub(subset[k].frequency, baseline_freq))

\* (subset["frequency"] - baseline_freq).abs().idxmin(): the first row at
\* the least distance
idxmin(subset, baseline_freq) ==
    CHOOSE k \in 1..Len(subset) :
        /\ \A j \in 1..Len(subset) :
              ~FLess(Distance(subset, baseline_freq, j), Distance(subset, baseline_freq, k))
        /\ \A j \in 1..(k - 1) :
              FLess(Distance(subset, baseline_freq, k), Distance(subset, baseline_freq, j))

\* the last row whose frequency is at most x, for x not below the first row
Bracket(x, subset) ==
    CHOOSE k \in 1..Len(subset) :
        /\ ~FLess(x, subset[k].frequency)
        /\ k < Len(subset) => FLess(x, subset[k + 1].frequency)

\* the value at x on the segment that starts at row j
Segment(x, subset, col, j) ==
    IF j = Len(subset) \/ subset[j].frequency = x THEN subset[j][col]
    ELSE FAdd(FMul(FDiv(FSub(subset[j + 1][col], subset[j][col]),
                        FSub(subset[j + 1].frequency, subset[j].frequency)),
                   FSub(x, subset[j].frequency)),
              subset[j][col])

\* np.interp(x, xp, fp, left=fp[0], right=fp[-1]) over increasing xp
np_interp(x, subset, col) ==
    IF FLess(subset[Len(subset)].frequency, x) THEN subset[Len(subset)][col]
    ELSE IF FLess(x, subset[1].frequency) THEN subset[1][col]
    ELSE Segment(x, subset, col, Bracket(x, subset))

\* baseline_freq = 0.98 if p == 0 else 0.99
baseline_freq(p) == IF p = 0 THEN Hundredths[98] ELSE Hundredths[99]

\* the body of interp_at(p) once subset is selected and sorted
InterpInSubset(subset, freq, p, col) ==
    IF FLess(FAbs(FSub(freq, baseline_freq(p))), Hundredths[2])
    THEN subset[idxmin(subset, baseline_freq(p))][col]
    ELSE np_interp(freq, subset, col)

\* interp_at(p) of interpolate(freq, pred, outcome_col)
interp_at(t, freq, p, col) == InterpInSubset(sort_values(Regime(t, p)), freq, p, col)

\* q / 50 for an int q in 0..50
OverFifty(q) == IF q = 0 THEN FZero ELSE Fiftieths[q]

\* v0 + (pred / 50) * (v50 - v0)
LowerBranch(pred, v0, v50) == FAdd(v0, FMul(OverFifty(pred), FSub(v50, v0)))

\* v50 + ((pred - 50) / 50) * (v100 - v50)
UpperBranch(pred, v50, v100) == FAdd(v50, FMul(OverFifty(pred - 50), FSub(v100, v50)))

\* interpolate(freq, pred, outcome_col)
interpolate(t, freq, pred, col) ==
    IF pred <= 50
    THEN LowerBranch(pred, interp_at(t, freq, 0, col), interp_at(t, freq, 50, col))
    ELSE UpperBranch(pred, interp_at(t, freq, 50, col), interp_at(t, freq, 100, col))

\* the float the frequency slider returns at position f
SliderValue(f) == Hundredths[f]

\* one run of the script
RunInterp(t, f, pred) ==
    [c \in InterpCols |-> interpolate(t, SliderValue(f), pred, c)]

InitInterp ==
    /\ interp_frequency = 99
    /\ interp_predictability = 50
    /\ outcome = RunInterp(raw_df, 99, 50)

MoveFrequency ==
    /\ \E f \in FrequencyInputs :
          /\ f # interp_frequency
          /\ interp_frequency' = f
          /\ outcome' = RunInterp(raw_df, f, interp_predictability)
    /\ UNCHANGED <<raw_df, interp_predictability, coreVars, stepVars, ctrlVars,
                   explorerVars, gainVars>>

MovePredictability ==
    /\ \E p \in PredictabilityInputs :
          /\ p # interp_predictability
          /\ interp_predictability' = p
          /\ outcome' = RunInterp(raw_df, interp_frequency, p)
    /\ UNCHANGED <<raw_df, interp_frequency, coreVars, stepVars, ctrlVars,
                   explorerVars, gainVars>>

NextInterp ==
    \/ MoveFrequency
    \/ MovePredictability

\* the state after construction: nothing called yet, every session after
\* its first run
InitSessions == session = [s \in Sessions |-> RunScript(variant, df, NewSession, 0)]

Init ==
    /\ InitCore
    /\ InitExplorer
    /\ InitGain
    /\ raw_df = NearTable
    /\ InitInterp
    /\ variant = "keyed"
    /\ df = MakeTable(Regime50, FALSE)
    /\ InitSessions

\* any of the dashboards, over any of the tables
InitControls ==
    /\ InitCore
    /\ InitExplorer
    /\ InitGain
    /\ raw_df = NearTable
    /\ InitInterp
    /\ variant \in Variants
    /\ df \in Tables
    /\ InitSessions

\* the interpolating dashboard over either of its tables
InitTables ==
    /\ InitCore
    /\ InitExplorer
    /\ InitGain
    /\ raw_df \in InterpTables
    /\ InitInterp
    /\ variant = "keyed"
    /\ df = MakeTable(Regime50, FALSE)
    /\ InitSessions

\* session s reruns the script with the widget state ss the browser sent
Rerun(s, ss, click) ==
    /\ session' = [session EXCEPT ![s] = RunScript(variant, df, ss, click)]
    /\ UNCHANGED <<variant, df, coreVars, stepVars, explorerVars, gainVars, interpVars>>

\* the radio options as the last run drew them
DrawnOptions(ss) == freq_options(get_freq_options(df, pred_map(ss.pred_choice)))

KeyedPickRegime ==
    /\ variant = "keyed"
    /\ \E s \in Sessions, i \in 1..3 :
          /\ pred_options[i] # session[s].pred_choice
          /\ Rerun(s, [session[s] EXCEPT !.pred_choice = pred_options[i]], 0)

KeyedPickFrequency ==
    /\ variant = "keyed"
    /\ \E s \in Sessions, i \in 1..3 :
          /\ DrawnOptions(session[s])[i] # session[s].freq_choice
          /\ Rerun(s, [session[s] EXCEPT !.freq_choice = DrawnOptions(session[s])[i]], 0)

IndexedPickRegime ==
    /\ variant = "indexed"
    /\ \E s \in Sessions, i \in 1..3 :
          /\ <<pred_options[i], 0>> # session[s].pred_widget.val
          /\ Rerun(s, [session[s] EXCEPT !.pred_widget.val = <<pred_options[i], 0>>], 0)

IndexedPickFrequency ==
    /\ variant = "indexed"
    /\ \E s \in Sessions, i \in 1..3 :
          /\ DrawnOptions(session[s])[i] # session[s].freq_widget.val
          /\ Rerun(s, [session[s] EXCEPT !.freq_widget.val = DrawnOptions(session[s])[i]], 0)

CardsSelect ==
    /\ variant = "cards"
    /\ \E s \in Sessions, i \in 1..3 :
          /\ i \in session[s].select_drawn
          /\ Rerun(s, session[s], i)

CardsPickFrequency ==
    /\ variant = "cards"
    /\ \E s \in Sessions, i \in 1..3 :
          /\ <<Positions[i], 0>> # session[s].freq_widget.val
          /\ Rerun(s, [session[s] EXCEPT !.freq_widget.val = <<Positions[i], 0>>], 0)

SlidersMoveRegime ==
    /\ variant = "sliders"
    /\ \E s \in Sessions, ui \in {0, 50, 100} :
          /\ <<"", ui>> # session[s].pred_widget.val
          /\ Rerun(s, [session[s] EXCEPT !.pred_widget.val = <<"", ui>>], 0)

SlidersMoveFrequency ==
    /\ variant = "sliders"
    /\ \E s \in Sessions, i \in 1..3 :
          /\ <<"", session[s].freq_widget.id[1][i]>> # session[s].freq_widget.val
          /\ Rerun(s, [session[s] EXCEPT
                          !.freq_widget.val = <<"", session[s].freq_widget.id[1][i]>>], 0)

NextControls ==
    \/ KeyedPickRegime
    \/ KeyedPickFrequency
    \/ IndexedPickRegime
    \/ IndexedPickFrequency
    \/ CardsSelect
    \/ CardsPickFrequency
    \/ SlidersMoveRegime
    \/ SlidersMoveFrequency

NextStep ==
    \/ ClickBack
    \/ ClickNext
    \/ MoveStepSlider
    \/ ToggleAutoplay
    \/ MoveSpeed

NextTwice ==
    \/ CallTimeShare
    \/ TimeShareStep
    \/ TimeShareReturn
    \/ CallScale
    \/ BisectStep
    \/ ScaleReturn
    \/ CallAgain
    \/ Finish

Next ==
    \/ NextConv
    \/ NextScale
    \/ NextDash
    \/ NextTwice
    \/ NextStep
    \/ NextControls
    \/ NextExplorer
    \/ NextGain
    \/ NextInterp

Spec == Init /\ [][Next]_vars
SpecConv == Init /\ [][NextConv]_vars
SpecDash == Init /\ [][NextDash]_vars
SpecScale == Init /\ [][NextScale]_vars
SpecTwice == Init /\ [][NextTwice]_vars
SpecStep == Init /\ [][NextStep]_vars
SpecControls == InitControls /\ [][NextControls]_vars
SpecExplorer == Init /\ [][NextExplorer]_vars
SpecGain == Init /\ [][NextGain]_vars
SpecInterp == InitTables /\ [][NextInterp]_vars

(***************************************************************************)
(* Properties of the converter.                                            *)
(***************************************************************************)
\* every hazard lies in [0, 1)
InUnitInterval(hz) == \A k \in 1..Len(hz) : Leq(Zero, hz[k]) /\ Less(hz[k], One)

\* the quotient q = <<a, b>> equals n / d
QuotEq(q, n, d) == MulInt(q[1], d) = MulInt(q[2], n)

\* a converter call has returned its pi
Returned == pc \in {"ts_done", "arr_done"}

\* C1: for a hazard sequence with all values in [0, 1) the returned pi sums
\* to 1 and every pi[w] is >= 0.
C1_SumsToOne ==
    (Returned /\ InUnitInterval(h)) =>
        /\ Len(pi) >= 1
        /\ \A k \in 1..Len(pi) :
              /\ pi[k][2] = pi[1][2]
              /\ Less(Zero, pi[k][2])
              /\ Leq(Zero, pi[k][1])
        /\ SumRange([k \in 1..Len(pi) |-> pi[k][1]], 1, Len(pi)) = pi[1][2]

C1_Witness ==
    /\ pc = "ts_done"
    /\ InUnitInterval(h)
    /\ Len(pi) = 3
    /\ Less(pi[3][1], pi[2][1])
    /\ Less(pi[2][1], pi[1][1])

\* hz is a spike at week ws: hz[ws] = 1 and every other entry is 0
IsSpike(hz, ws) ==
    /\ ws \in 0..(Len(hz) - 1)
    /\ \A k \in 1..Len(hz) : hz[k] = IF k = ws + 1 THEN One ELSE Zero

\* pi is uniform 1/(ws+1) on weeks 0..ws and has no mass after week ws
UniformUpTo(ws) ==
    /\ Len(pi) >= ws + 1
    /\ \A k \in 1..Len(pi) :
          IF k <= ws + 1 THEN QuotEq(pi[k], 1, ws + 1) ELSE QuotEq(pi[k], 0, 1)

\* C3 as stated: for a spike hazard at week w*, pi[w] = 1/(w*+1) for every
\* w <= w* and there is no mass on any later week.
C3_Original ==
    Returned => \A ws \in 0..(MaxLen - 1) : IsSpike(h, ws) => UniformUpTo(ws)

\* C3 amended: the same, provided the horizon of the capped converter
\* reaches the spike (w* < horizon); the array-based variants have no cap.
C3_SpikeUniform ==
    Returned =>
        \A ws \in 0..(MaxLen - 1) :
            (IsSpike(h, ws) /\ (pc = "ts_done" => ws < horizon)) => UniformUpTo(ws)

C3_Witness ==
    /\ pc = "ts_done"
    /\ IsSpike(h, 1)
    /\ Len(h) = 3
    /\ horizon = 4
    /\ Len(pi) = 2

\* week index read for S[w] in the recurrence: h[w-1], the last entry once
\* w-1 is past the array (k = w + 1 is the position in S_vals)
PrevHazard(k) == h[IF k - 1 <= Len(h) THEN k - 1 ELSE Len(h)]

\* C5: S[0] = 1, S[w] = S[w-1] * (1 - h[w-1]) for every produced w >= 1,
\* and pi[w] = S[w] / (sum of all produced S).
C5_Recurrence ==
    (pc \in {"ts_loop", "ts_norm", "ts_done", "arr_done"}) =>
        /\ Len(S_vals) >= 1 => S_vals[1] = One
        /\ \A k \in 2..Len(S_vals) :
              S_vals[k] = Mul(S_vals[k - 1], Sub(One, PrevHazard(k)))
        /\ Returned =>
              /\ Len(pi) = Len(S_vals)
              /\ \A k \in 1..Len(pi) :
                    pi[k] = <<S_vals[k], SumRange(S_vals, 1, Len(S_vals))>>

C5_Witness ==
    /\ pc = "ts_done"
    /\ Len(S_vals) = 5
    /\ Len(h) = 3
    /\ h[1] # h[2]
    /\ h[2] # h[3]
    /\ Less(Zero, S_vals[5])
    /\ Less(S_vals[5], S_vals[4])

\* C9: expected_cycle_length_from_hazard(h, H) equals the sum of the
\* survival values time_share_from_hazard(h, H) accumulates, so that
\* pi[w] = S[w] / E[L]; the loop of a direct call returns that same value.
C9_LengthIsSurvivalSum ==
    /\ pc = "ts_done" =>
          /\ expected_cycle_length_from_hazard(h, horizon) = SumRange(S_vals, 1, Len(S_vals))
          /\ \A k \in 1..Len(pi) :
                pi[k] = <<S_vals[k], expected_cycle_length_from_hazard(h, horizon)>>
    /\ pc = "ecl_done" => EL = expected_cycle_length_from_hazard(h, horizon)

C9_Witness ==
    /\ pc = "ts_done"
    /\ Len(S_vals) = 4
    /\ horizon = 5
    /\ Less(One, expected_cycle_length_from_hazard(h, horizon))
    /\ ~(expected_cycle_length_from_hazard(h, horizon) \in {FromInt(n) : n \in 1..MaxHorizon})

(***************************************************************************)
(* Termination of the survival loops.  The code is straight-line and       *)
(* single-threaded: a loop that can take a step takes it.                  *)
(***************************************************************************)
FairSpecConv ==
    /\ SpecConv
    /\ WF_vars(TimeShareStep)
    /\ WF_vars(TimeShareReturn)
    /\ WF_vars(ExpectedLengthStep)

\* the loops never run past the horizon, and they are still running only
\* while survival has not dropped below 1e-10
LoopBounded ==
    /\ pc \in {"ts_loop", "ecl_loop"} =>
          /\ w < horizon
          /\ ~Less(S, <<0, 0, 0, 100>>)
    /\ pc \in {"ts_loop", "ts_norm", "ts_done"} => Len(S_vals) <= horizon
    /\ pc \in {"ts_norm", "ts_done", "ecl_done"} =>
          \/ w = horizon
          \/ w < horizon /\ Less(S, <<0, 0, 0, 100>>)
    /\ pc \in {"ts_norm", "ts_done"} =>
          Len(S_vals) = IF w = horizon THEN horizon ELSE w + 1
    /\ pc = "ts_done" => Len(pi) \in 1..horizon

\* C10: the survival loop of both functions always terminates: at most
\* `horizon` iterations, earlier at the first week after which survival is
\* below 1e-10; the returned pi has between 1 and horizon entries.
C10_Terminates ==
    /\ []LoopBounded
    /\ (pc = "ts_loop") ~> (pc = "ts_done")
    /\ (pc = "ecl_loop") ~> (pc = "ecl_done")

C10_Witness ==
    /\ pc = "ts_done"
    /\ horizon = 5
    /\ Len(pi) = 4
    /\ Less(Zero, S)

(***************************************************************************)
(* Properties of scale_hazard_to_target_length.                            *)
(***************************************************************************)
\* every entry of the (clipped) shape is zero
AllZero(shp) == \A k \in 1..Len(shp) : shp[k] = Zero

\* |x - L| <= L / 100 for an integer L
WithinOnePercent(x, L) ==
    /\ Leq(MulInt(Sub(x, FromInt(L)), 100), FromInt(L))
    /\ Leq(MulInt(Sub(FromInt(L), x), 100), FromInt(L))

\* expected cycle length of the hazard the call returned
ReturnedLength == expected_cycle_length_from_hazard(ret, DefaultHorizon)

Bracketed ==
    /\ Leq(expected_cycle_length_from_hazard(ScaledHazard(HiInit, shape), DefaultHorizon),
           FromInt(target_len))
    /\ target_len <= DefaultHorizon

C6_ZeroShapeFallback ==
    (pc \in {"scale_loop", "scale_done"} /\ AllZero(shape)) =>
        /\ pc = "scale_done"
        /\ it = 0
        /\ lo = Zero
        /\ hi = HiInit
        /\ Len(ret) = Len(shape)
        /\ \A k \in 1..Len(ret) :
              /\ Leq(MulInt(ret[k], target_len), One)
              /\ Less(One, MulInt(Add(ret[k], <<0, 0, 0, 1>>), target_len))

C6_Witness ==
    /\ pc = "scale_done"
    /\ AllZero(shape)
    /\ Len(shape) = 2
    /\ target_len = CYCLE_WEEKS
    /\ ret = <<<<0, 188, 6792, 4528>>, <<0, 188, 6792, 4528>>>>

\* C7: every value of the returned hazard lies in [0, 0.999], the fallback
\* path included, and the result has the length of the shape.
C7_HazardInRange ==
    pc = "scale_done" =>
        /\ Len(ret) = Len(shape)
        /\ \A k \in 1..Len(ret) : Leq(Zero, ret[k]) /\ Leq(ret[k], <<0, 9990, 0, 0>>)

\* multipliers 0, 1/2, 1, 2, 5, 50 in increasing order
Multipliers == <<Zero, <<0, 5000, 0, 0>>, One, FromInt(2), FromInt(5), HiInit>>

\* expected cycle length of clip(m * shape, 0, 0.999)
LengthAt(m) == expected_cycle_length_from_hazard(ScaledHazard(m, shape), DefaultHorizon)

\* C8: for a fixed non-negative shape the expected cycle length of
\* clip(m * shape, 0, 0.999) is non-increasing in m; checked on the bracket
\* of every bisection state and on a ladder of multipliers.
C8_Monotone ==
    pc = "scale_loop" =>
        /\ Leq(lo, hi)
        /\ Leq(LengthAt(hi), LengthAt(lo))
        /\ it = 0 =>
              \A i \in 1..(Len(Multipliers) - 1) :
                  Leq(LengthAt(Multipliers[i + 1]), LengthAt(Multipliers[i]))

C8_Witness ==
    /\ pc = "scale_loop"
    /\ it = 3
    /\ Less(lo, hi)
    /\ Less(Zero, lo)
    /\ Less(LengthAt(hi), LengthAt(lo))

\* the bracket of the bisection: 0 <= lo <= hi <= 50, the length at lo is
\* above the target unless lo is still 0, the length at hi is at most the
\* target unless hi is still 50
BracketHolds ==
    /\ Leq(Zero, lo)
    /\ Leq(lo, hi)
    /\ Leq(hi, HiInit)
    /\ (lo # Zero => Less(FromInt(target_len), LengthAt(lo)))
    /\ (hi # HiInit => Leq(LengthAt(hi), FromInt(target_len)))

\* the loop runs exactly 60 times before the return, and the value returned
\* is clip(hi * shape, 0, 0.999)
ReturnsHi ==
    (pc = "scale_done" /\ ~AllZero(shape)) =>
        /\ it = BisectIters
        /\ ret = ScaledHazard(hi, shape)

\* one iteration of the bisection loop has run
Iterated == pc = "scale_loop" /\ pc' = "scale_loop" /\ it' = it + 1

\* C22 as stated: throughout the bisection 0 <= lo <= hi <= 50, the width
\* hi - lo is exactly halved by every one of the 60 iterations, the length at
\* lo exceeds the target unless lo = 0, the length at hi is at most the target
\* unless hi = 50, and the multiplier returned is hi.
C22_Original ==
    /\ [](pc \in {"scale_loop", "scale_done"} => BracketHolds)
    /\ []ReturnsHi
    /\ [][Iterated => MulInt(Sub(hi', lo'), 2) = Sub(hi, lo)]_vars

\* C22 amended: the same, with the width halved up to the rounding of the
\* midpoint: the new width is half the old one rounded down or rounded up to
\* the last digit carried (and so exactly half while the midpoint is exact).
C22_BisectionBracket ==
    /\ [](pc \in {"scale_loop", "scale_done"} => BracketHolds)
    /\ []ReturnsHi
    /\ [][Iterated =>
            /\ Leq(DivInt(Sub(hi, lo), 2), Sub(hi', lo'))
            /\ Leq(Sub(hi', lo'), Sub(Sub(hi, lo), DivInt(Sub(hi, lo), 2)))]_vars

C22_Witness ==
    /\ pc = "scale_done"
    /\ it = BisectIters
    /\ Less(Zero, lo)
    /\ Less(lo, hi)
    /\ Less(hi, HiInit)
    /\ Less(FromInt(target_len), LengthAt(lo))
    /\ Leq(LengthAt(hi), FromInt(target_len))
    /\ ret = ScaledHazard(hi, shape)

(***************************************************************************)
(* Properties of the dashboard script.                                     *)
(***************************************************************************)
\* C4: at slider 0 the hazard passed to the converter is 0 before week 53
\* and 1 at week 53, and pi is uniform 1/54 on weeks 0..53 and zero on every
\* later week.
C4_ScheduledExtreme ==
    (caller = "dash" /\ predictability = 0) =>
        /\ pc \in {"ts_loop", "ts_norm", "ts_done"} =>
              /\ \A k \in 1..CYCLE_WEEKS : h[k] = Zero
              /\ h[CYCLE_WEEKS + 1] = One
        /\ pc = "ts_done" => UniformUpTo(CYCLE_WEEKS)

\* what the script computes at slider 0: hazard 5e-11 before week 53 and
\* 0.999 at week 53, and a pi that runs over all 300 weeks
C4_Observed ==
    (caller = "dash" /\ predictability = 0 /\ pc = "ts_done") =>
        /\ \A k \in 1..CYCLE_WEEKS : h[k] = <<0, 0, 0, 50>>
        /\ h[CYCLE_WEEKS + 1] = <<0, 9990, 0, 0>>
        /\ Len(pi) = DashHorizon
        /\ \A k \in 1..Len(pi) : Less(Zero, pi[k][1])
        /\ ~QuotEq(pi[1], 1, CYCLE_WEEKS + 1)

\* expected cycle length of the hazard the dashboard hands to the converter
CombinedLength == expected_cycle_length_from_hazard(h, DefaultHorizon)

\* |EL - L| <= 10% of L
WithinTenPercent(el, L) ==
    /\ Leq(MulInt(el, 10), FromInt(11 * L))
    /\ Leq(FromInt(9 * L), MulInt(el, 10))

\* C13: at every slider position the combined hazard
\* h = clip(spike + rest_scaled, 0, 0.999) has an expected cycle length of
\* about CYCLE_WEEKS = 53 weeks (taken generously: within 10%).
C13_FrequencyHeld ==
    (caller = "dash" /\ pc \in {"ts_loop", "ts_norm", "ts_done"}) =>
        WithinTenPercent(CombinedLength, CYCLE_WEEKS)

(***************************************************************************)
(* Repeated calls.                                                         *)
(***************************************************************************)
\* C11: a second call of time_share_from_hazard, or of
\* scale_hazard_to_target_length, on the same input returns what the first
\* returned, and no step of a call changes the array the caller passed (the
\* converter still reads the caller's values, the scaler their clipped copy).
C11_Idempotent ==
    [][/\ (pc # "idle" /\ pc' # "idle") => arg' = arg
       /\ (caller' = "direct" /\ pc' \in {"ts_loop", "ts_norm", "ts_done"}) => h' = arg'
       /\ (caller' = "direct" /\ pc' \in {"scale_loop", "scale_done"}) =>
             shape' = [k \in 1..Len(arg') |-> ClipLow(arg'[k], <<0, 0, 0, 0>>)]
       /\ (calls' = 2 /\ pc' = "ts_done") => pi' = first_out'
       /\ (calls' = 2 /\ pc' = "scale_done") => ret' = first_out']_vars

C11_Witness ==
    /\ calls = 2
    /\ pc = "ts_done"
    /\ Len(pi) = 4
    /\ pi = first_out
    /\ Less(pi[4][1], pi[3][1])

(***************************************************************************)
(* Constant hazard.                                                        *)
(***************************************************************************)
\* every entry of the hazard is the same c, 0 <= c < 1
ConstantHazard(hz) ==
    /\ Len(hz) >= 1
    /\ \A k \in 1..Len(hz) : hz[k] = hz[1]
    /\ Leq(Zero, hz[1])
    /\ Less(hz[1], One)

RECURSIVE Pow(_, _)
\* x ^ n
Pow(x, n) == IF n = 0 THEN One ELSE Mul(Pow(x, n - 1), x)

\* number of weeks of the geometric sequence x^0, x^1, ... that are produced:
\* up to the first week whose successor is below 1e-10, at most hor
GeomLen(x, hor) ==
    LET small == {n \in 1..hor : Less(Pow(x, n), Threshold)}
    IN  IF small = {} THEN hor ELSE CHOOSE n \in small : \A m \in small : n <= m

\* C12: for a constant hazard c in [0, 1) the survival of every produced week
\* w is (1 - c)^w, and the returned pi is that geometric sequence, cut where
\* the loop stops, divided by its sum.
C12_Geometric ==
    (pc \in {"ts_loop", "ts_norm", "ts_done"} /\ ConstantHazard(h)) =>
        LET x == Sub(One, h[1])
            n == GeomLen(x, horizon)
        IN  /\ \A k \in 1..Len(S_vals) : S_vals[k] = Pow(x, k - 1)
            /\ pc = "ts_done" =>
                  /\ Len(pi) = n
                  /\ \A k \in 1..n :
                        pi[k] = <<Pow(x, k - 1), SumSeq([j \in 1..n |-> Pow(x, j - 1)])>>

C12_Witness ==
    /\ pc = "ts_done"
    /\ ConstantHazard(h)
    /\ h[1] = <<0, 2500, 0, 0>>
    /\ Len(pi) = 5
    /\ pi[5][1] = <<0, 3164, 625, 0>>

(***************************************************************************)
(* The policy-outcome dashboards.                                          *)
(***************************************************************************)
\* C14: over a table with exactly three frequencies for each of the regimes
\* 0, 50 and 100, after any sequence of selections the lookup of the row for
\* the selected (predictability, frequency) pair finds a row.
C14_LookupFinds ==
    \A s \in Sessions :
        /\ session[s].shown.row # IndexError
        /\ df[session[s].shown.row].predictability_numeric = session[s].shown.predictability
        /\ df[session[s].shown.row].frequency = session[s].shown.frequency

C14_Witness ==
    /\ variant = "sliders"
    /\ session[1].shown.predictability = 100
    /\ session[1].shown.frequency = 74254
    /\ session[1].shown.row # IndexError
    /\ session[2].shown.predictability = 0
    /\ session[2].shown.frequency = 122500

\* C15: sessions that have arrived at the same regime and frequency position,
\* by whatever interactions, show the same scenario label and the same
\* outcome row, and no interaction changes the table.
C15_SelectionDecides ==
    [][/\ df' = df
       /\ \A s, t \in Sessions :
             (/\ session'[s].pred_choice = session'[t].pred_choice
              /\ session'[s].freq_position = session'[t].freq_position) =>
                 /\ session'[s].shown.scenario = session'[t].shown.scenario
                 /\ session'[s].shown.row = session'[t].shown.row
                 /\ session'[s].shown.frequency = session'[t].shown.frequency]_vars

\* two sessions on the same selection whose frequency widgets the browser
\* holds differently: they came by different interactions
C15_Witness ==
    /\ variant = "cards"
    /\ session[1].pred_choice = "Unpredictable"
    /\ session[2].pred_choice = "Unpredictable"
    /\ session[1].freq_position = "+25%"
    /\ session[2].freq_position = "+25%"
    /\ session[1].freq_widget # session[2].freq_widget
    /\ session[1].shown = session[2].shown
    /\ session[1].shown.row # IndexError

\* C17: in the dashboards that store a frequency position, a run that changes
\* the regime leaves the stored position as it was, the frequency radio then
\* holds the new regime's option at that position, and the frequency used is
\* the new regime's low / mid / high value for it.
C17_PositionKept ==
    [][\A s \in Sessions :
          (/\ variant \in {"keyed", "indexed"}
           /\ session'[s].pred_choice # session[s].pred_choice) =>
              LET pos == session[s].freq_position
                  opts == get_freq_options(df, pred_map(session'[s].pred_choice))
                  radio == IF variant = "keyed" THEN session'[s].freq_choice
                           ELSE session'[s].freq_widget.val
              IN  /\ session'[s].freq_position = pos
                  /\ radio = freq_options(opts)[PosIndex(pos)]
                  /\ session'[s].shown.frequency = opts[PosIndex(pos)]]_vars

C17_Witness ==
    /\ variant = "keyed"
    /\ session[1].pred_choice = "Perfectly predictable"
    /\ session[1].freq_position = "+25%"
    /\ session[1].freq_choice = <<"+25%", 123>>
    /\ session[1].shown.frequency = 122500
    /\ session[2].pred_choice = "Unpredictable"
    /\ session[2].freq_position = "-25%"

\* C18: in the dashboards with the nine-bar charts, exactly one row of the
\* table has the scenario_key equal to the selected_key of the current
\* selection, and it is the row whose metrics are shown.
C18_OneBarHighlighted ==
    variant \in {"keyed", "indexed"} =>
        \A s \in Sessions :
            /\ session[s].shown.row # IndexError
            /\ session[s].shown.highlighted = {session[s].shown.row}

C18_Witness ==
    /\ variant = "keyed"
    /\ session[1].shown.predictability = 100
    /\ session[1].shown.frequency = 74254
    /\ session[1].shown.selected_key = <<100, 74250>>
    /\ session[1].shown.highlighted = {session[1].shown.row}
    /\ df[session[1].shown.row].frequency = 74254

(***************************************************************************)
(* The four-step mechanism explorer.                                       *)
(***************************************************************************)
\* C19: at every slider position the time-weighted average effort of the
\* unpredictable regime is at least that of the predictable regime, so the
\* displayed effort increase is not negative.
C19_UnpredictableHigher ==
    /\ Less(Zero, avg_effort_pred[2])
    /\ avg_effort_unpred[2] = avg_effort_pred[2]
    /\ Leq(avg_effort_pred[1], avg_effort_unpred[1])

IsFlat(curve) == \A k \in 1..Len(curve) : curve[k] = curve[1]

\* C20: the curve plotted as the unpredictable regime is constant over weeks
\* 0..60; the curve plotted as the predictable regime is not: it is lowest
\* mid-cycle and rises from there to the next inspection.
C20_FlatAndCycle ==
    /\ Len(curves.unpredictable) = ExplorerWeeks
    /\ IsFlat(curves.unpredictable)
    /\ ~IsFlat(curves.predictable)
    /\ \A k \in 1..ExplorerWeeks : Leq(curves.predictable[31], curves.predictable[k])
    /\ \A k \in 31..(ExplorerWeeks - 1) : Leq(curves.predictable[k], curves.predictable[k + 1])

\* what the script plots: the two curves the other way round
C20_Observed ==
    /\ IsFlat(curves.predictable)
    /\ curves.predictable[1] = Baseline
    /\ ~IsFlat(curves.unpredictable)
    /\ curves.unpredictable[1] = <<0, 3000, 0, 0>>
    /\ curves.unpredictable[31] = <<-1, 8000, 0, 0>>
    /\ \A k \in 1..ExplorerWeeks : Leq(curves.unpredictable[31], curves.unpredictable[k])

(***************************************************************************)
(* The three-step dashboard.                                               *)
(***************************************************************************)
\* C16: the step of the three-step dashboard is always 1, 2 or 3.
C16_StepInRange == step \in {1, 2, 3}
(***************************************************************************)
(* Properties of the hazard-linked dashboard.                              *)
(***************************************************************************)
\* C21: at every slider position the fully random benchmark's average effort
\* is at least the current setting's (equal at slider 0), so the "Gain if
\* Fully Random" percentage is never negative.
C21_RandomAtLeastCurrent ==
    /\ Leq(avg_e_current, avg_e_rand)
    /\ Leq(Zero, diff)
    /\ policy_slider = 0 => avg_e_rand = avg_e_current

\* what the script computes instead: the two averages are equal at slider 0
\* only, and at every other position the current setting's average is the
\* higher one and the gain is negative
C21_Observed ==
    /\ policy_slider = 0 => avg_e_rand = avg_e_current /\ diff = Zero
    /\ policy_slider > 0 => Less(avg_e_rand, avg_e_current) /\ Less(diff, Zero)
    /\ policy_slider = 50 =>
          /\ avg_e_rand[1] = 0 /\ avg_e_rand[2] = 638     \* 0.0638...
          /\ avg_e_current[1] = 0 /\ avg_e_current[2] = 941 \* 0.0941...
          /\ diff[1] = -33                                   \* -32.17 %

(***************************************************************************)
(* Properties of the interpolating dashboard.                              *)
(***************************************************************************)
\* interp_at(p) for the column at the frequency the slider shows
Anchor(p, col) == interp_at(raw_df, SliderValue(interp_frequency), p, col)

\* x lies between a and b, ends included
Between(x, a, b) ==
    \/ ~FLess(x, a) /\ ~FLess(b, x)
    \/ ~FLess(x, b) /\ ~FLess(a, x)

\* C23: interpolate returns exactly the regime's own value interp_at(pred) at
\* pred 0, 50 and 100, a value on the segment between the two adjacent anchor
\* regimes at every other pred, and its two branches give the same value at
\* pred = 50.
C23_InterpolateAtAnchors ==
    \A col \in InterpCols :
        /\ interp_predictability \in {0, 50, 100} =>
              outcome[col] = Anchor(interp_predictability, col)
        /\ interp_predictability <= 50 =>
              Between(outcome[col], Anchor(0, col), Anchor(50, col))
        /\ interp_predictability >= 50 =>
              Between(outcome[col], Anchor(50, col), Anchor(100, col))
        /\ LowerBranch(50, Anchor(0, col), Anchor(50, col))
              = UpperBranch(50, Anchor(50, col), Anchor(100, col))

\* the value the regime at 50 holds for lives_saved_per_1000 in WideTable at
\* the default frequency, and the double just below it
NineTenths == Dec(9, 1)
BelowNineTenths == Canonical(0, NSub(NineTenths.m, <<1>>), NineTenths.e)

\* what interpolate returns over the two tables: the anchor itself at pred 0
\* and 100 and wherever the anchors lie within a factor of two of each other,
\* and at pred 50 over WideTable v0 + 1.0 * (v50 - v0) for v0 = 0.2 and
\* v50 = 0.9, which is 0.8999999999999999
C23_Observed ==
    /\ \A col \in InterpCols :
          /\ interp_predictability \in {0, 100} =>
                outcome[col] = Anchor(interp_predictability, col)
          /\ raw_df = NearTable /\ interp_predictability = 50 =>
                outcome[col] = Anchor(50, col)
    /\ raw_df = WideTable /\ interp_predictability = 50 /\ interp_frequency = 99 =>
          /\ Anchor(50, "lives_saved_per_1000") = NineTenths
          /\ outcome["lives_saved_per_1000"] = BelowNineTenths
          /\ UpperBranch(50, Anchor(50, "lives_saved_per_1000"),
                         Anchor(100, "lives_saved_per_1000")) = NineTenths

====
